---- MODULE Spec2Model ----
(***************************************************************************)
(* LEMINO AI Product Studio: the App component's state, its handlers and   *)
(* the generation pipeline (index.tsx, the version with history, zoom and  *)
(* output sizes).  One action per event handler or promise continuation;   *)
(* a handler runs to completion, so everything it does up to its first     *)
(* await is one step, and the code after `await Promise.all` is one step   *)
(* with the settlement that wakes it.                                      *)
(***************************************************************************)
EXTENDS Integers, Sequences, FiniteSets, TLC

(* ------------------------------ bounds -------------------------------- *)

\* Edits of the inputs (file picks, clears, typing, mode, count and size
\* choices, reuse of a history entry) per run.
MaxInputs == 3
\* Generate actions that pass validation, per run.
MaxBatches == 2
\* The same caps for the runs that fill the history, with the number of those
\* generate actions that may fail and the largest batch generated.
HistInputs == 3
HistBatches == 11
HistFailures == 1
HistImages == 2
\* The same for runs that fill the slots of both modes.
ModeInputs == 5
ModeBatches == 2
ModeImages == 2
\* The same for runs with the zoom modal.
ZoomInputs == 3
ZoomBatches == 2
ZoomImages == 3

(* ------------------------- program constants -------------------------- *)

\* [1, 2, 3, 4, 5, 6].map(num => <button onClick={() => setNumberOfImages(num)}>)
MaxImages == 6
\* [newHistoryItem, ...prev].slice(0, 10)
HistoryCap == 10
\* useState(1024) for customWidth and customHeight
DefaultSize == 1024

\* JavaScript null: an image slot without image, no error, a result not yet in.
NULL == [null |-> TRUE]

Modes == {"character", "product"}
SlotTypes == {"character", "product", "outfit", "background"}
AspectRatios == {"1:1", "3:4", "4:3", "custom"}

(* ------------------------------ values -------------------------------- *)

\* A data URL "data:<mime>;base64,<payload>", kept as its two components.
DataUrl(m, b) == [mime |-> m, base64 |-> b]

\* What FileReader.readAsDataURL yields for the files a user may pick: the
\* picker accepts image/*, so the MIME type is the file's own.
Files == {DataUrl("image/jpeg", "J"), DataUrl("image/png", "P"),
          DataUrl("image/gif", "G")}

\* Text of a prompt box: a sequence of characters.
Texts == {<<>>, <<" ">>, <<"a">>, <<" ", "a", " ">>}

\* String.prototype.trim: whitespace stripped from both ends.
RECURSIVE TrimLeft(_)
TrimLeft(s) == IF s # <<>> /\ Head(s) = " " THEN TrimLeft(Tail(s)) ELSE s

RECURSIVE TrimRight(_)
TrimRight(s) ==
    IF s # <<>> /\ s[Len(s)] = " " THEN TrimRight(SubSeq(s, 1, Len(s) - 1)) ELSE s

Trim(s) == TrimRight(TrimLeft(s))

\* Values the size inputs can deliver to parseInt: digits, a negative
\* number, or text that parses to NaN.
RawSizes == {<<"int", 0>>, <<"int", 3>>, <<"int", -5>>, <<"NaN", 0>>}

\* Math.max(0, parseInt(e.target.value, 10) || 0)
ParseSize(raw) ==
    LET parsed == IF raw[1] = "NaN" THEN 0 ELSE raw[2]
    IN  IF parsed > 0 THEN parsed ELSE 0

(* ------------------------------ state --------------------------------- *)

VARIABLES
    appState,        \* "Idle" | "Loading" | "Result"
    mode,
    characterImage, productImage, outfitImage, backgroundImage,
    characterPrompt, productPrompt,
    numberOfImages,
    aspectRatio, customWidth, customHeight,
    resultImages,
    error,
    history,
    reads,           \* FileReader reads started and not yet ended
    inflight,        \* generateContent calls awaited by the pending Promise.all
    abandoned,       \* calls still out whose Promise.all has already rejected
    join,            \* the handleGenerate suspended at `await Promise.all`
    batches,         \* handleGenerate calls that passed validation so far
    now,             \* Date.now()
    inputs,          \* edits of the inputs so far
    zoomedImageState, \* { isOpen, images, startIndex }
    currentIndex     \* ZoomModal's index while it is mounted, 0 otherwise

inputVars == <<mode, characterImage, productImage, outfitImage, backgroundImage,
               characterPrompt, productPrompt, numberOfImages,
               aspectRatio, customWidth, customHeight>>
outputVars == <<appState, resultImages, error, history>>
netVars == <<inflight, abandoned, join, batches, now>>
zoomVars == <<zoomedImageState, currentIndex>>
vars == <<inputVars, outputVars, netVars, reads, inputs, zoomVars>>

NoJoin == [batch |-> 0]

\* { isOpen: false, images: [], startIndex: 0 }
ClosedZoom == [isOpen |-> FALSE, images |-> <<>>, startIndex |-> 0]

Init ==
    /\ appState = "Idle"
    /\ mode = "character"
    /\ characterImage = NULL
    /\ productImage = NULL
    /\ outfitImage = NULL
    /\ backgroundImage = NULL
    /\ characterPrompt = <<>>
    /\ productPrompt = <<>>
    /\ numberOfImages = 1
    /\ aspectRatio = "1:1"
    /\ customWidth = DefaultSize
    /\ customHeight = DefaultSize
    /\ resultImages = <<>>
    /\ error = NULL
    /\ history = <<>>
    /\ reads = {}
    /\ inflight = {}
    /\ abandoned = 0
    /\ join = NoJoin
    /\ batches = 0
    /\ now = 0
    /\ inputs = 0
    /\ zoomedImageState = ClosedZoom
    /\ currentIndex = 0

(* --------------------------- input handlers --------------------------- *)

Slot(type) ==
    CASE type = "character" -> characterImage
      [] type = "product" -> productImage
      [] type = "outfit" -> outfitImage
      [] type = "background" -> backgroundImage

\* The uploaders renderIdleContent shows for the active mode.
VisibleSlots ==
    IF mode = "character" THEN {"character", "product", "outfit"}
    ELSE {"product", "background"}

\* handleImageUpload / handleImageClear: the setter of the slot named by type.
SetSlot(type, value) ==
    /\ characterImage' = IF type = "character" THEN value ELSE characterImage
    /\ productImage' = IF type = "product" THEN value ELSE productImage
    /\ outfitImage' = IF type = "outfit" THEN value ELSE outfitImage
    /\ backgroundImage' = IF type = "background" THEN value ELSE backgroundImage

\* ImageUploader.handleFileChange: the Upload button of an empty, visible
\* uploader; the read ends later (reader.onloadend).
StartRead(cap) ==
    /\ appState = "Idle"
    /\ inputs < cap
    /\ \E type \in VisibleSlots, file \in Files :
          /\ Slot(type) = NULL
          /\ reads' = reads \cup {[type |-> type, result |-> file]}
    /\ inputs' = inputs + 1
    /\ UNCHANGED <<inputVars, outputVars, netVars>>
    /\ UNCHANGED zoomVars

\* FinishRead with the result dropped unless the Idle view is shown.
FinishReadIdleOnly ==
    /\ \E r \in reads :
          /\ reads' = reads \ {r}
          /\ IF appState = "Idle" THEN SetSlot(r.type, r.result)
             ELSE UNCHANGED <<characterImage, productImage, outfitImage, backgroundImage>>
    /\ UNCHANGED <<mode, characterPrompt, productPrompt, numberOfImages,
                   aspectRatio, customWidth, customHeight,
                   outputVars, netVars, inputs>>
    /\ UNCHANGED zoomVars

\* reader.onloadend with a result: onImageUpload(reader.result.toString()).
\* It runs whatever the App shows by then.
FinishRead ==
    /\ \E r \in reads :
          /\ reads' = reads \ {r}
          /\ SetSlot(r.type, r.result)
    /\ UNCHANGED <<mode, characterPrompt, productPrompt, numberOfImages,
                   aspectRatio, customWidth, customHeight,
                   outputVars, netVars, inputs>>
    /\ UNCHANGED zoomVars

\* reader.onloadend after a failed read: reader.result is null, nothing is set.
FailRead ==
    /\ \E r \in reads : reads' = reads \ {r}
    /\ UNCHANGED <<inputVars, outputVars, netVars, inputs>>
    /\ UNCHANGED zoomVars

ClearImage(cap) ==
    /\ appState = "Idle"
    /\ inputs < cap
    /\ inputs' = inputs + 1
    /\ \E type \in VisibleSlots :
          /\ Slot(type) # NULL
          /\ SetSlot(type, NULL)
    /\ UNCHANGED <<mode, characterPrompt, productPrompt, numberOfImages,
                   aspectRatio, customWidth, customHeight,
                   outputVars, netVars, reads>>
    /\ UNCHANGED zoomVars

SetMode(cap) ==
    /\ appState = "Idle"
    /\ inputs < cap
    /\ inputs' = inputs + 1
    /\ \E m \in Modes : mode' = m
    /\ UNCHANGED <<characterImage, productImage, outfitImage, backgroundImage,
                   characterPrompt, productPrompt, numberOfImages,
                   aspectRatio, customWidth, customHeight,
                   outputVars, netVars, reads>>
    /\ UNCHANGED zoomVars

\* The textarea's onChange: the prompt of the active mode.
TypePrompt(cap) ==
    /\ appState = "Idle"
    /\ inputs < cap
    /\ \E text \in Texts :
          IF mode = "character"
          THEN characterPrompt' = text /\ UNCHANGED productPrompt
          ELSE productPrompt' = text /\ UNCHANGED characterPrompt
    /\ inputs' = inputs + 1
    /\ UNCHANGED <<mode, characterImage, productImage, outfitImage, backgroundImage,
                   numberOfImages, aspectRatio, customWidth, customHeight,
                   outputVars, netVars, reads>>
    /\ UNCHANGED zoomVars

\* The "Clear prompt" button, shown while the active prompt is non-empty.
ClearPrompt(cap) ==
    /\ appState = "Idle"
    /\ inputs < cap
    /\ inputs' = inputs + 1
    /\ IF mode = "character"
       THEN characterPrompt # <<>> /\ characterPrompt' = <<>> /\ UNCHANGED productPrompt
       ELSE productPrompt # <<>> /\ productPrompt' = <<>> /\ UNCHANGED characterPrompt
    /\ UNCHANGED <<mode, characterImage, productImage, outfitImage, backgroundImage,
                   numberOfImages, aspectRatio, customWidth, customHeight,
                   outputVars, netVars, reads>>
    /\ UNCHANGED zoomVars

SetNumberOfImages(cap) ==
    /\ appState = "Idle"
    /\ inputs < cap
    /\ \E num \in 1..MaxImages : numberOfImages' = num
    /\ inputs' = inputs + 1
    /\ UNCHANGED <<mode, characterImage, productImage, outfitImage, backgroundImage,
                   characterPrompt, productPrompt,
                   aspectRatio, customWidth, customHeight,
                   outputVars, netVars, reads>>
    /\ UNCHANGED zoomVars

SetAspectRatio(cap) ==
    /\ appState = "Idle"
    /\ inputs < cap
    /\ \E r \in AspectRatios : aspectRatio' = r
    /\ inputs' = inputs + 1
    /\ UNCHANGED <<mode, characterImage, productImage, outfitImage, backgroundImage,
                   characterPrompt, productPrompt, numberOfImages,
                   customWidth, customHeight, outputVars, netVars, reads>>
    /\ UNCHANGED zoomVars

\* The width and height inputs, shown while aspectRatio is 'custom'.
SetCustomSize(cap) ==
    /\ appState = "Idle"
    /\ aspectRatio = "custom"
    /\ inputs < cap
    /\ \E raw \in RawSizes :
          \/ customWidth' = ParseSize(raw) /\ UNCHANGED customHeight
          \/ customHeight' = ParseSize(raw) /\ UNCHANGED customWidth
    /\ inputs' = inputs + 1
    /\ UNCHANGED <<mode, characterImage, productImage, outfitImage, backgroundImage,
                   characterPrompt, productPrompt, numberOfImages, aspectRatio,
                   outputVars, netVars, reads>>
    /\ UNCHANGED zoomVars

\* The close button of the error banner: setError(null).
DismissError ==
    /\ appState = "Idle"
    /\ error # NULL
    /\ error' = NULL
    /\ UNCHANGED <<inputVars, appState, resultImages, history, netVars, reads, inputs>>
    /\ UNCHANGED zoomVars

(* ------------------------- request construction ----------------------- *)

\* getAspectRatioDescription without the test of width and height.
getAspectRatioDescriptionAnySize(ratio, width, height) ==
    IF ratio = "custom"
    THEN "a (" \o ToString(width) \o ":" \o ToString(height) \o ")"
    ELSE CASE ratio = "1:1" -> "a square (1:1)"
           [] ratio = "3:4" -> "a portrait (3:4)"
           [] ratio = "4:3" -> "a landscape (4:3)"
           [] OTHER -> "a (" \o ratio \o ")"

\* getAspectRatioDescription(ratio, width, height)
getAspectRatioDescription(ratio, width, height) ==
    IF ratio = "custom" /\ width > 0 /\ height > 0
    THEN "a (" \o ToString(width) \o ":" \o ToString(height) \o ")"
    ELSE CASE ratio = "1:1" -> "a square (1:1)"
           [] ratio = "3:4" -> "a portrait (3:4)"
           [] ratio = "4:3" -> "a landscape (4:3)"
           [] OTHER -> "a (" \o ratio \o ")"

\* base64ToGenerativePart(base64, mimeType)
base64ToGenerativePart(base64, mimeType) ==
    [inlineData |-> [data |-> base64, mimeType |-> mimeType]]

\* The instruction text, kept as the template chosen and the values its
\* placeholders take.  ${userPrompt ? `ADDITIONAL USER REQUEST: ...` : ''} is
\* present for every non-empty userPrompt.
OptionalRequest(userPrompt) ==
    IF userPrompt # <<>> THEN <<[clause |-> "ADDITIONAL USER REQUEST", text |-> userPrompt]>>
    ELSE <<>>

\* CharacterParts with the text pushed before the outfit part.
CharacterPartsTextEarly(character, product, outfit, userPrompt, ratio, width, height) ==
    LET images == <<base64ToGenerativePart(character.base64, character.mimeType),
                    base64ToGenerativePart(product.base64, product.mimeType)>>
        aspect == getAspectRatioDescription(ratio, width, height)
    IN  IF outfit # NULL
        THEN Append(Append(images,
                           [text |-> [template |-> "character with outfit", aspect |-> aspect,
                                      clauses |-> OptionalRequest(userPrompt)]]),
                    base64ToGenerativePart(outfit.base64, outfit.mimeType))
        ELSE Append(images,
                    [text |-> [template |-> "character", aspect |-> aspect,
                               clauses |-> OptionalRequest(userPrompt)]])

\* generateCharacterPlacementImage: the parts handed to executeImageGeneration.
CharacterParts(character, product, outfit, userPrompt, ratio, width, height) ==
    LET images == <<base64ToGenerativePart(character.base64, character.mimeType),
                    base64ToGenerativePart(product.base64, product.mimeType)>>
        aspect == getAspectRatioDescription(ratio, width, height)
    IN  IF outfit # NULL
        THEN Append(Append(images, base64ToGenerativePart(outfit.base64, outfit.mimeType)),
                    [text |-> [template |-> "character with outfit", aspect |-> aspect,
                               clauses |-> OptionalRequest(userPrompt)]])
        ELSE Append(images,
                    [text |-> [template |-> "character", aspect |-> aspect,
                               clauses |-> OptionalRequest(userPrompt)]])

\* ProductParts with the scene description clause in both templates.
ProductPartsSceneAlways(product, background, userPrompt, ratio, width, height) ==
    LET images == <<base64ToGenerativePart(product.base64, product.mimeType)>>
        aspect == getAspectRatioDescription(ratio, width, height)
        scene == <<[clause |-> "USER SCENE DESCRIPTION", text |-> userPrompt]>>
    IN  IF background # NULL
        THEN Append(Append(images,
                           base64ToGenerativePart(background.base64, background.mimeType)),
                    [text |-> [template |-> "product in background", aspect |-> aspect,
                               clauses |-> scene]])
        ELSE Append(images,
                    [text |-> [template |-> "product in scene", aspect |-> aspect,
                               clauses |-> scene]])

\* generateProductConceptImage: the parts handed to executeImageGeneration.
ProductParts(product, background, userPrompt, ratio, width, height) ==
    LET images == <<base64ToGenerativePart(product.base64, product.mimeType)>>
        aspect == getAspectRatioDescription(ratio, width, height)
    IN  IF background # NULL
        THEN Append(Append(images,
                           base64ToGenerativePart(background.base64, background.mimeType)),
                    [text |-> [template |-> "product in background", aspect |-> aspect,
                               clauses |-> OptionalRequest(userPrompt)]])
        ELSE Append(images,
                    [text |-> [template |-> "product in scene", aspect |-> aspect,
                               clauses |-> <<[clause |-> "USER SCENE DESCRIPTION",
                                              text |-> userPrompt]>>]])

(* ----------------------------- handleGenerate ------------------------- *)

Err(message) == [message |-> message]

currentPrompt == IF mode = "character" THEN characterPrompt ELSE productPrompt

\* ValidationError without its third check.
ValidationErrorImagesOnly ==
    IF mode = "character" /\ (characterImage = NULL \/ productImage = NULL)
    THEN Err("Please upload both a character and a product image.")
    ELSE IF mode = "product" /\ productImage = NULL
    THEN Err("Please upload a product image.")
    ELSE NULL

\* The three validation returns of handleGenerate, in order; NULL when the
\* inputs pass.
ValidationError ==
    IF mode = "character" /\ (characterImage = NULL \/ productImage = NULL)
    THEN Err("Please upload both a character and a product image.")
    ELSE IF mode = "product" /\ productImage = NULL
    THEN Err("Please upload a product image.")
    ELSE IF mode = "product" /\ Trim(currentPrompt) = <<>> /\ backgroundImage = NULL
    THEN Err("Please describe the scene or provide a background image for the product concept.")
    ELSE NULL

\* isGenerateDisabled with !currentPrompt in place of !currentPrompt.trim().
isGenerateDisabledNoTrim ==
    \/ mode = "character" /\ (characterImage = NULL \/ productImage = NULL)
    \/ mode = "product" /\ (productImage = NULL
                             \/ (currentPrompt = <<>> /\ backgroundImage = NULL))

\* renderIdleContent: the disabled attribute of the Generate button.
isGenerateDisabled ==
    \/ mode = "character" /\ (characterImage = NULL \/ productImage = NULL)
    \/ mode = "product" /\ (productImage = NULL
                             \/ (Trim(currentPrompt) = <<>> /\ backgroundImage = NULL))

\* ParsableMimes with image/gif let through.
ParsableMimesWithGif == {"image/jpeg", "image/png", "image/webp", "image/gif"}

\* parseDataUrl: /^data:(image\/(?:jpeg|png|webp));base64,(.*)$/
ParsableMimes == {"image/jpeg", "image/png", "image/webp"}
Parses(dataUrl) == dataUrl.mime \in ParsableMimes
parseDataUrl(dataUrl) == [mimeType |-> dataUrl.mime, base64 |-> dataUrl.base64]

\* One pass of the dispatch loop throws "Invalid image data URL." when a
\* data URL it parses does not match.
BodyThrows ==
    IF mode = "character"
    THEN \/ ~Parses(characterImage)
         \/ ~Parses(productImage)
         \/ (outfitImage # NULL /\ ~Parses(outfitImage))
    ELSE \/ ~Parses(productImage)
         \/ (backgroundImage # NULL /\ ~Parses(backgroundImage))

\* BodyParts with the character-mode call made in both modes.
BodyPartsCharacterOnly ==
    CharacterParts(IF characterImage # NULL THEN parseDataUrl(characterImage)
                   ELSE parseDataUrl(productImage),
                   parseDataUrl(productImage),
                   IF outfitImage # NULL THEN parseDataUrl(outfitImage) ELSE NULL,
                   currentPrompt, aspectRatio, customWidth, customHeight)

\* The parts of the request one pass of the loop sends.
BodyParts ==
    IF mode = "character"
    THEN CharacterParts(parseDataUrl(characterImage), parseDataUrl(productImage),
                        IF outfitImage # NULL THEN parseDataUrl(outfitImage) ELSE NULL,
                        currentPrompt, aspectRatio, customWidth, customHeight)
    ELSE ProductParts(parseDataUrl(productImage),
                      IF backgroundImage # NULL THEN parseDataUrl(backgroundImage) ELSE NULL,
                      currentPrompt, aspectRatio, customWidth, customHeight)

\* DispatchLoop with the test i <= numberOfImages.
RECURSIVE DispatchLoopOneMore(_, _)
DispatchLoopOneMore(i, generationTasks) ==
    IF i <= numberOfImages
    THEN IF BodyThrows
         THEN [threw |-> TRUE, tasks |-> generationTasks]
         ELSE DispatchLoopOneMore(i + 1, Append(generationTasks, BodyParts))
    ELSE [threw |-> FALSE, tasks |-> generationTasks]

\* for (let i = 0; i < numberOfImages; i++) { ... generationTasks.push(...) }
\* Each generate... call sends its request before it returns its promise.
RECURSIVE DispatchLoop(_, _)
DispatchLoop(i, generationTasks) ==
    IF i < numberOfImages
    THEN IF BodyThrows
         THEN [threw |-> TRUE, tasks |-> generationTasks]
         ELSE DispatchLoop(i + 1, Append(generationTasks, BodyParts))
    ELSE [threw |-> FALSE, tasks |-> generationTasks]

\* The requests of a batch, as they travel: batch number, position, the
\* generate function that sent them (by mode) and their parts.
Requests(batch, tasks) ==
    {[batch |-> batch, index |-> i, mode |-> mode, parts |-> tasks[i]] :
        i \in 1..Len(tasks)}

\* handleGenerate without its setError(null).
KeptError == error

\* setError(null), the first statement of handleGenerate.
ClearedError == NULL

\* handleGenerate up to `await Promise.all(generationTasks)`.
HandleGenerate ==
    IF ValidationError # NULL
    THEN /\ error' = ValidationError
         /\ UNCHANGED <<inputVars, appState, resultImages, history, netVars, reads, inputs>>
    ELSE LET loop == DispatchLoop(0, <<>>)
             sent == Len(loop.tasks)
             batch == batches + 1
         IN  /\ batches' = batch
             /\ IF loop.threw
                THEN /\ error' = Err("Invalid image data URL.")
                     /\ appState' = "Idle"
                     /\ abandoned' = abandoned + sent
                     /\ UNCHANGED <<inflight, join>>
                ELSE /\ error' = ClearedError
                     /\ appState' = "Loading"
                     /\ inflight' = Requests(batch, loop.tasks)
                     /\ UNCHANGED abandoned
                     /\ join' = [batch |-> batch,
                                 results |-> [i \in 1..sent |-> NULL],
                                 prompt |-> currentPrompt,
                                 mode |-> mode,
                                 characterImage |-> characterImage,
                                 productImage |-> productImage,
                                 outfitImage |-> outfitImage,
                                 backgroundImage |-> backgroundImage]
             /\ UNCHANGED <<inputVars, resultImages, history, now, reads, inputs>>

\* Generate actions that passed validation and failed, so far.
failures == batches - now - (IF join = NoJoin THEN 0 ELSE 1)

\* ClickGenerate with a Generate button that the loading view shows as well.
ClickGenerateWhileLoading(cap, failureCap, sizeCap) ==
    /\ appState \in {"Idle", "Loading"}
    /\ ~isGenerateDisabled
    /\ batches < cap
    /\ numberOfImages <= sizeCap
    /\ BodyThrows => failures < failureCap
    /\ HandleGenerate
    /\ UNCHANGED zoomVars

\* The Generate button of the Idle view.
ClickGenerate(cap, failureCap, sizeCap) ==
    /\ appState = "Idle"
    /\ ~isGenerateDisabled
    /\ batches < cap
    /\ numberOfImages <= sizeCap
    /\ BodyThrows => failures < failureCap
    /\ HandleGenerate
    /\ UNCHANGED zoomVars

\* The Regenerate button of ResultView (rendered while resultImages is
\* non-empty): onRegenerate={handleGenerate}.
ClickRegenerate(cap, failureCap, sizeCap) ==
    /\ appState = "Result"
    /\ resultImages # <<>>
    /\ batches < cap
    /\ numberOfImages <= sizeCap
    /\ BodyThrows => failures < failureCap
    /\ HandleGenerate
    /\ UNCHANGED zoomVars

\* handleGenerate called in the Idle view although the button is disabled:
\* the only way into its validation returns.
CallGenerate ==
    /\ appState = "Idle"
    /\ isGenerateDisabled
    /\ HandleGenerate
    /\ UNCHANGED zoomVars

(* ------------------------- responses and the join --------------------- *)

\* What a generateContent call can end with: an Error thrown by the
\* transport, a response without candidates?.[0]?.content?.parts, or a
\* response with parts: none, text only, text and an image, or an inlineData
\* part without data followed by an image.  The image a request returns is
\* named after the request.
ImageOf(request) == [data |-> <<request.batch, request.index>>, mimeType |-> "image/png"]

Outcomes(request) ==
    { [kind |-> "error", message |-> "Network error", parts |-> <<>>],
      [kind |-> "no parts", message |-> "", parts |-> <<>>],
      [kind |-> "parts", message |-> "", parts |-> <<>>],
      [kind |-> "parts", message |-> "", parts |-> <<[text |-> "I cannot do that."]>>],
      [kind |-> "parts", message |-> "",
       parts |-> <<[text |-> "Here it is."], [inlineData |-> ImageOf(request)]>>],
      [kind |-> "parts", message |-> "",
       parts |-> <<[inlineData |-> [data |-> <<>>, mimeType |-> "image/png"]],
                   [inlineData |-> ImageOf(request)]>>] }

IsImagePart(p) == "inlineData" \in DOMAIN p
IsTextPart(p) == "text" \in DOMAIN p

\* Array.prototype.find, given the indices of the elements that satisfy the
\* test: the first of them, or NULL.
Find(seq, hits) ==
    IF hits = {} THEN NULL
    ELSE seq[CHOOSE i \in hits : \A j \in hits : i <= j]

\* executeImageGeneration after the response is in: the image data, or the
\* message of the Error it throws.
executeImageGeneration(outcome) ==
    IF outcome.kind = "error" THEN [ok |-> FALSE, message |-> outcome.message]
    ELSE IF outcome.kind = "no parts"
    THEN [ok |-> FALSE, message |-> "Invalid response from model. No parts found."]
    ELSE LET responseParts == outcome.parts
             imagePart == Find(responseParts,
                               {i \in 1..Len(responseParts) : IsImagePart(responseParts[i])})
             textPart == Find(responseParts,
                              {i \in 1..Len(responseParts) : IsTextPart(responseParts[i])})
         IN  IF imagePart = NULL \/ imagePart.inlineData.data = <<>>
             THEN [ok |-> FALSE,
                   message |-> "Model did not return an image. Response: "
                               \o (IF textPart = NULL THEN "<no text>" ELSE textPart.text)]
             ELSE [ok |-> TRUE, imageData |-> imagePart.inlineData]

\* generateCharacterPlacementImage / generateProductConceptImage once the
\* response is in: the result of executeImageGeneration, or, from the catch,
\* an Error whose message carries the function's prefix.
FailurePrefix(m) ==
    IF m = "character" THEN "Failed to generate image. "
    ELSE "Failed to generate product concept. "

TaskResult(request, outcome) ==
    LET r == executeImageGeneration(outcome)
    IN  IF r.ok THEN [ok |-> TRUE, value |-> [imageData |-> r.imageData]]
        ELSE [ok |-> FALSE, message |-> FailurePrefix(request.mode) \o r.message]

\* Promise.any in place of Promise.all: fulfilled by the first fulfilled task.
PromiseAny(results, index, task) ==
    IF ~task.ok
    THEN [state |-> "rejected", reason |-> task.message]
    ELSE [state |-> "fulfilled", values |-> <<task.value>>]

\* Promise.allSettled in place of Promise.all: a rejection is kept until
\* every task has settled, and only then fails the batch.
PromiseAllSettled(results, index, task) ==
    LET filled == [results EXCEPT ![index] =
                      IF task.ok THEN task.value ELSE [reason |-> task.message]]
        done == \A i \in 1..Len(filled) : filled[i] # NULL
        bad == {i \in 1..Len(filled) : "reason" \in DOMAIN filled[i]}
    IN  IF ~done THEN [state |-> "pending", values |-> filled]
        ELSE IF bad = {} THEN [state |-> "fulfilled", values |-> filled]
        ELSE [state |-> "rejected",
              reason |-> filled[CHOOSE i \in bad : \A j \in bad : i <= j].reason]

\* Promise.all with a rejection swallowed: the task's catch returns nothing,
\* and the join keeps waiting.
PromiseAllDeaf(results, index, task) ==
    IF ~task.ok
    THEN [state |-> "pending", values |-> results]
    ELSE LET filled == [results EXCEPT ![index] = task.value]
         IN  IF \A i \in 1..Len(filled) : filled[i] # NULL
             THEN [state |-> "fulfilled", values |-> filled]
             ELSE [state |-> "pending", values |-> filled]

\* Promise.all with the values in the order the tasks completed.
PromiseAllByCompletion(results, index, task) ==
    IF ~task.ok
    THEN [state |-> "rejected", reason |-> task.message]
    ELSE LET free == {i \in 1..Len(results) : results[i] = NULL}
             first == CHOOSE i \in free : \A j \in free : i <= j
             filled == [results EXCEPT ![first] = task.value]
         IN  IF \A i \in 1..Len(filled) : filled[i] # NULL
             THEN [state |-> "fulfilled", values |-> filled]
             ELSE [state |-> "pending", values |-> filled]

\* The tasks awaited one after the other in place of Promise.all: a rejection
\* is heard only once every task before it has resolved.
PromiseAllInOrder(results, index, task) ==
    LET filled == [results EXCEPT ![index] =
                      IF task.ok THEN task.value ELSE [rejected |-> task.message]]
        open == {i \in 1..Len(filled) : "imageData" \notin DOMAIN filled[i]}
        first == CHOOSE i \in open : \A k \in open : i <= k
    IN  IF open = {} THEN [state |-> "fulfilled", values |-> filled]
        ELSE IF "rejected" \in DOMAIN filled[first]
        THEN [state |-> "rejected", reason |-> filled[first].rejected]
        ELSE [state |-> "pending", values |-> filled]

\* Promise.all(generationTasks) when the task at index settles: it rejects at
\* once with the reason of a rejected task, and is fulfilled, with the values
\* in the order of the tasks, once every task is fulfilled.
PromiseAll(results, index, task) ==
    IF ~task.ok
    THEN [state |-> "rejected", reason |-> task.message]
    ELSE LET filled == [results EXCEPT ![index] = task.value]
         IN  IF \A i \in 1..Len(filled) : filled[i] # NULL
             THEN [state |-> "fulfilled", values |-> filled]
             ELSE [state |-> "pending", values |-> filled]

\* results.map(result => `data:${mimeType};base64,${data}`)
generatedImages(results) ==
    [i \in 1..Len(results) |->
        DataUrl(results[i].imageData.mimeType, results[i].imageData.data)]

\* PushHistory with slice(0, 11).
PushHistoryOneMore(item, prev) ==
    LET all == <<item>> \o prev
    IN  SubSeq(all, 1, IF Len(all) < HistoryCap + 1 THEN Len(all) ELSE HistoryCap + 1)

\* [newHistoryItem, ...prev].slice(0, 10)
PushHistory(item, prev) ==
    LET all == <<item>> \o prev
    IN  SubSeq(all, 1, IF Len(all) < HistoryCap THEN Len(all) ELSE HistoryCap)

\* Succeed with the entry made from the state as it is when the batch ends.
SucceedLive(results) ==
    LET images == generatedImages(results)
        newHistoryItem == [id |-> now + 1,
                           images |-> images,
                           prompt |-> currentPrompt,
                           mode |-> mode,
                           characterImage |-> characterImage,
                           productImage |-> productImage,
                           outfitImage |-> outfitImage,
                           backgroundImage |-> backgroundImage]
    IN  /\ now' = now + 1
        /\ history' = PushHistory(newHistoryItem, history)
        /\ resultImages' = images
        /\ appState' = "Result"
        /\ UNCHANGED error

\* Succeed with the new entry put behind the entries there are.
SucceedToBack(results) ==
    LET images == generatedImages(results)
        newHistoryItem == [id |-> now + 1,
                           images |-> images,
                           prompt |-> join.prompt,
                           mode |-> join.mode,
                           characterImage |-> join.characterImage,
                           productImage |-> join.productImage,
                           outfitImage |-> join.outfitImage,
                           backgroundImage |-> join.backgroundImage]
    IN  /\ now' = now + 1
        /\ history' = SubSeq(history \o <<newHistoryItem>>, 1,
                             IF Len(history) < HistoryCap THEN Len(history) + 1
                             ELSE HistoryCap)
        /\ resultImages' = images
        /\ appState' = "Result"
        /\ UNCHANGED error

\* The code after `await Promise.all(generationTasks)`, every result in.
\* Date.now() reads a clock that has moved on since the last entry was made.
Succeed(results) ==
    LET images == generatedImages(results)
        newHistoryItem == [id |-> now + 1,
                           images |-> images,
                           prompt |-> join.prompt,
                           mode |-> join.mode,
                           characterImage |-> join.characterImage,
                           productImage |-> join.productImage,
                           outfitImage |-> join.outfitImage,
                           backgroundImage |-> join.backgroundImage]
    IN  /\ now' = now + 1
        /\ history' = PushHistory(newHistoryItem, history)
        /\ resultImages' = images
        /\ appState' = "Result"
        /\ UNCHANGED error

\* The catch of handleGenerate without its setAppState(AppState.Idle).
FailStaysLoading(message) ==
    /\ error' = Err(message)
    /\ UNCHANGED <<appState, resultImages, history, now>>

\* The catch of handleGenerate.
Fail(message) ==
    /\ error' = Err(message)
    /\ appState' = "Idle"
    /\ UNCHANGED <<resultImages, history, now>>

\* A generateContent call of the awaited batch ends and its task settles.
\* Promise.all takes the result and, once settled itself, resumes
\* handleGenerate; the calls still out are then nobody's.
Settle(failureCap) ==
    \E request \in inflight : \E outcome \in Outcomes(request) :
        LET all == PromiseAll(join.results, request.index, TaskResult(request, outcome))
            others == inflight \ {request}
        IN  /\ all.state = "rejected" => failures < failureCap
            /\ CASE all.state = "fulfilled" ->
                       /\ Succeed(all.values)
                       /\ join' = NoJoin
                       /\ inflight' = {}
                       /\ abandoned' = abandoned + Cardinality(others)
                  [] all.state = "rejected" ->
                       /\ Fail(all.reason)
                       /\ join' = NoJoin
                       /\ inflight' = {}
                       /\ abandoned' = abandoned + Cardinality(others)
                  [] OTHER ->
                       /\ join' = [join EXCEPT !.results = all.values]
                       /\ inflight' = others
                       /\ UNCHANGED <<outputVars, abandoned, now>>
            /\ UNCHANGED <<inputVars, batches, reads, inputs, zoomVars>>

\* SettleAbandoned with the catch of handleGenerate run once more.
SettleAbandonedHeard ==
    /\ abandoned > 0
    /\ abandoned' = abandoned - 1
    /\ error' = Err("Failed to generate image. Network error")
    /\ UNCHANGED <<inputVars, appState, resultImages, history, inflight, join,
                   batches, now, reads, inputs>>
    /\ UNCHANGED zoomVars

\* A generateContent call ends whose Promise.all has already rejected: the
\* task settles, and the settled Promise.all ignores it.
SettleAbandoned ==
    /\ abandoned > 0
    /\ abandoned' = abandoned - 1
    /\ UNCHANGED <<inputVars, outputVars, inflight, join, batches, now, reads, inputs>>
    /\ UNCHANGED zoomVars

(* --------------------------- result handlers -------------------------- *)

\* handleStartOver with the history reset as well.
handleStartOverAll ==
    /\ appState = "Result"
    /\ appState' = "Idle"
    /\ characterImage' = NULL
    /\ productImage' = NULL
    /\ outfitImage' = NULL
    /\ backgroundImage' = NULL
    /\ characterPrompt' = <<>>
    /\ productPrompt' = <<>>
    /\ numberOfImages' = 1
    /\ aspectRatio' = "1:1"
    /\ resultImages' = <<>>
    /\ error' = NULL
    /\ history' = <<>>
    /\ UNCHANGED <<mode, customWidth, customHeight, netVars, reads, inputs>>
    /\ UNCHANGED zoomVars

\* handleStartOver without its setAspectRatio('1:1').
handleStartOverKeepsRatio ==
    /\ appState = "Result"
    /\ appState' = "Idle"
    /\ characterImage' = NULL
    /\ productImage' = NULL
    /\ outfitImage' = NULL
    /\ backgroundImage' = NULL
    /\ characterPrompt' = <<>>
    /\ productPrompt' = <<>>
    /\ numberOfImages' = 1
    /\ resultImages' = <<>>
    /\ error' = NULL
    /\ UNCHANGED <<mode, aspectRatio, customWidth, customHeight, history, netVars,
                   reads, inputs>>
    /\ UNCHANGED zoomVars

handleStartOver ==
    /\ appState = "Result"
    /\ appState' = "Idle"
    /\ characterImage' = NULL
    /\ productImage' = NULL
    /\ outfitImage' = NULL
    /\ backgroundImage' = NULL
    /\ characterPrompt' = <<>>
    /\ productPrompt' = <<>>
    /\ numberOfImages' = 1
    /\ aspectRatio' = "1:1"
    /\ resultImages' = <<>>
    /\ error' = NULL
    /\ UNCHANGED <<mode, customWidth, customHeight, history, netVars, reads, inputs>>
    /\ UNCHANGED zoomVars

\* handleContinue with setAppState(AppState.Loading).
handleContinueLoading ==
    /\ appState = "Result"
    /\ appState' = "Loading"
    /\ numberOfImages' = 1
    /\ resultImages' = <<>>
    /\ error' = NULL
    /\ UNCHANGED <<mode, characterImage, productImage, outfitImage, backgroundImage,
                   characterPrompt, productPrompt, aspectRatio, customWidth,
                   customHeight, history, netVars, reads, inputs>>
    /\ UNCHANGED zoomVars

\* handleContinue without its setNumberOfImages(1).
handleContinueKeepsCount ==
    /\ appState = "Result"
    /\ appState' = "Idle"
    /\ resultImages' = <<>>
    /\ error' = NULL
    /\ UNCHANGED <<mode, characterImage, productImage, outfitImage, backgroundImage,
                   characterPrompt, productPrompt, numberOfImages, aspectRatio,
                   customWidth, customHeight, history, netVars, reads, inputs>>
    /\ UNCHANGED zoomVars

handleContinue ==
    /\ appState = "Result"
    /\ appState' = "Idle"
    /\ numberOfImages' = 1
    /\ resultImages' = <<>>
    /\ error' = NULL
    /\ UNCHANGED <<mode, characterImage, productImage, outfitImage, backgroundImage,
                   characterPrompt, productPrompt, aspectRatio, customWidth,
                   customHeight, history, netVars, reads, inputs>>
    /\ UNCHANGED zoomVars

\* The Reuse button of a history entry (the history is part of the Idle view).
\* handleReuseHistoryItem without its setMode(item.mode).
handleReuseHistoryItemKeepsMode(cap) ==
    /\ appState = "Idle"
    /\ inputs < cap
    /\ inputs' = inputs + 1
    /\ \E k \in 1..Len(history) :
          LET item == history[k]
          IN  /\ characterImage' = item.characterImage
              /\ productImage' = item.productImage
              /\ outfitImage' = item.outfitImage
              /\ backgroundImage' = item.backgroundImage
              /\ IF item.mode = "character"
                 THEN characterPrompt' = item.prompt /\ productPrompt' = <<>>
                 ELSE productPrompt' = item.prompt /\ characterPrompt' = <<>>
    /\ UNCHANGED <<mode, numberOfImages, aspectRatio, customWidth, customHeight,
                   outputVars, netVars, reads>>
    /\ UNCHANGED zoomVars

handleReuseHistoryItem(cap) ==
    /\ appState = "Idle"
    /\ inputs < cap
    /\ inputs' = inputs + 1
    /\ \E k \in 1..Len(history) :
          LET item == history[k]
          IN  /\ mode' = item.mode
              /\ characterImage' = item.characterImage
              /\ productImage' = item.productImage
              /\ outfitImage' = item.outfitImage
              /\ backgroundImage' = item.backgroundImage
              /\ IF item.mode = "character"
                 THEN characterPrompt' = item.prompt /\ productPrompt' = <<>>
                 ELSE productPrompt' = item.prompt /\ characterPrompt' = <<>>
    /\ UNCHANGED <<numberOfImages, aspectRatio, customWidth, customHeight,
                   outputVars, netVars, reads>>
    /\ UNCHANGED zoomVars

(* ------------------------------ zoom modal ---------------------------- *)

\* The image lists a zoom can be opened on: the results shown by ResultView,
\* and, in the Idle view, the images of a history entry.
ZoomableLists ==
    IF appState = "Result" THEN (IF resultImages # <<>> THEN {resultImages} ELSE {})
    ELSE IF appState = "Idle" THEN {history[k].images : k \in 1..Len(history)}
    ELSE {}

\* handleOpenZoomModal(images, startIndex).  ZoomModal takes its index from
\* startIndex when it mounts, and keeps the index it has while it stays mounted.
handleOpenZoomModal ==
    /\ \E images \in ZoomableLists : \E startIndex \in 0..(Len(images) - 1) :
          /\ zoomedImageState' = [isOpen |-> TRUE, images |-> images,
                                  startIndex |-> startIndex]
          /\ currentIndex' = IF zoomedImageState.isOpen THEN currentIndex ELSE startIndex
    /\ UNCHANGED <<inputVars, outputVars, netVars, reads, inputs>>

\* handleCloseZoomModal with the App sent back to Idle.
handleCloseZoomModalToIdle ==
    /\ zoomedImageState.isOpen
    /\ zoomedImageState' = ClosedZoom
    /\ currentIndex' = 0
    /\ appState' = "Idle"
    /\ UNCHANGED <<inputVars, resultImages, error, history, netVars, reads, inputs>>

\* handleCloseZoomModal: the close button, the backdrop, or Escape.
handleCloseZoomModal ==
    /\ zoomedImageState.isOpen
    /\ zoomedImageState' = ClosedZoom
    /\ currentIndex' = 0
    /\ UNCHANGED <<inputVars, outputVars, netVars, reads, inputs>>

\* ZoomModal.handleNext: the right button or ArrowRight.
handleNext ==
    /\ zoomedImageState.isOpen
    /\ currentIndex' = (currentIndex + 1) % Len(zoomedImageState.images)
    /\ UNCHANGED <<zoomedImageState, inputVars, outputVars, netVars, reads, inputs>>

\* ZoomModal.handlePrev: the left button or ArrowLeft.
handlePrev ==
    /\ zoomedImageState.isOpen
    /\ currentIndex' = (currentIndex - 1 + Len(zoomedImageState.images))
                           % Len(zoomedImageState.images)
    /\ UNCHANGED <<zoomedImageState, inputVars, outputVars, netVars, reads, inputs>>

\* ResultView.handleDownload: a link to the image is made, clicked and
\* removed; no state of the App is written.
handleDownload ==
    /\ appState = "Result"
    /\ \E index \in 1..Len(resultImages) : UNCHANGED vars

(* ---------------------------- specifications -------------------------- *)

\* Everything the rendered views let happen, the zoom modal apart.
NextWith(inputCap, batchCap, failureCap, sizeCap) ==
    \/ StartRead(inputCap)
    \/ FinishRead
    \/ FailRead
    \/ ClearImage(inputCap)
    \/ SetMode(inputCap)
    \/ TypePrompt(inputCap)
    \/ ClearPrompt(inputCap)
    \/ SetNumberOfImages(inputCap)
    \/ SetAspectRatio(inputCap)
    \/ SetCustomSize(inputCap)
    \/ DismissError
    \/ ClickGenerate(batchCap, failureCap, sizeCap)
    \/ ClickRegenerate(batchCap, failureCap, sizeCap)
    \/ Settle(failureCap)
    \/ SettleAbandoned
    \/ handleStartOver
    \/ handleContinue
    \/ handleReuseHistoryItem(inputCap)

Next == NextWith(MaxInputs, MaxBatches, MaxBatches, MaxImages)

Spec == Init /\ [][Next]_vars

\* The same, with handleGenerate also called while its button is disabled.
NextHandler == Next \/ CallGenerate

SpecHandler == Init /\ [][NextHandler]_vars

\* The same as SpecHandler, run long enough to overflow the history.
NextHistory == NextWith(HistInputs, HistBatches, HistFailures, HistImages) \/ CallGenerate

SpecHistory == Init /\ [][NextHistory]_vars

\* The views, with edits enough to fill the slots of one mode and generate
\* in the other.
NextModes == NextWith(ModeInputs, ModeBatches, ModeBatches, ModeImages)

SpecModes == Init /\ [][NextModes]_vars

\* The views and the zoom modal.
NextZoom ==
    \/ NextWith(ZoomInputs, ZoomBatches, ZoomBatches, ZoomImages)
    \/ handleOpenZoomModal
    \/ handleCloseZoomModal
    \/ handleNext
    \/ handlePrev
    \/ handleDownload

SpecZoom == Init /\ [][NextZoom]_vars

\* The views, with every generateContent call of an awaited batch ending
\* sooner or later.
SpecLive == Init /\ [][Next]_vars /\ WF_vars(Settle(MaxBatches))

(* ------------------------------ properties ---------------------------- *)

\* The inputs the validation is said to reject.
ClaimInvalid ==
    \/ mode = "character" /\ (characterImage = NULL \/ productImage = NULL)
    \/ mode = "product" /\ productImage = NULL
    \/ /\ mode = "product"
       /\ \A i \in 1..Len(productPrompt) : productPrompt[i] = " "
       /\ backgroundImage = NULL

\* Every image the active mode uses is a JPEG, PNG or WebP data URL.
ClaimParsable ==
    LET used == IF mode = "character"
                THEN {characterImage, productImage, outfitImage}
                ELSE {productImage, backgroundImage}
    IN  \A image \in used \ {NULL} :
            image.mime \in {"image/jpeg", "image/png", "image/webp"}

\* The tasks of the awaited batch that have resolved.
Resolved(j) ==
    IF "results" \in DOMAIN j
    THEN Cardinality({i \in 1..Len(j.results) : "imageData" \in DOMAIN j.results[i]})
    ELSE 0

\* A request of the awaited batch ends, and not by resolving.
RequestRejects ==
    /\ appState = "Loading"
    /\ inflight' # inflight
    /\ appState' # "Result"
    /\ ~("results" \in DOMAIN join' /\ Resolved(join') = Resolved(join) + 1)

\* C1: with inputs the validation rejects (character mode without the
\* character or the product image, product mode without the product image,
\* product mode with an empty or whitespace-only prompt and no background),
\* a generate action sets a non-empty error, stays in Idle, sends no request
\* and leaves resultImages and history as they were.
C1_RejectedBeforeDispatch ==
    [][(appState = "Idle" /\ ClaimInvalid /\ HandleGenerate) =>
          /\ error' # NULL
          /\ error'.message # ""
          /\ appState' = "Idle"
          /\ inflight' = inflight
          /\ abandoned' = abandoned
          /\ batches' = batches
          /\ resultImages' = resultImages
          /\ history' = history]_vars

C1_Witness ==
    /\ appState = "Idle"
    /\ mode = "product"
    /\ productImage # NULL
    /\ backgroundImage = NULL
    /\ productPrompt = <<" ">>
    /\ error = Err("Please describe the scene or provide a background image for the product concept.")
    /\ batches = 0

Accepted ==
    /\ appState \in {"Idle", "Result"}
    /\ ~ClaimInvalid
    /\ ClaimParsable
    /\ HandleGenerate

\* C3: a generate action that passes validation and parsing sends exactly
\* numberOfImages (1..6) requests, all with the same parts; no other step
\* sends a request, so nothing is retried.
C3_ExactlyNRequests ==
    [][IF Accepted
       THEN /\ numberOfImages \in 1..MaxImages
            /\ Cardinality(inflight') = numberOfImages
            /\ {r.index : r \in inflight'} = 1..numberOfImages
            /\ inflight' \cap inflight = {}
            /\ \A r \in inflight' : r.batch = batches + 1
            /\ \A r1, r2 \in inflight' : r1.parts = r2.parts
            /\ abandoned' = abandoned
       ELSE /\ inflight' \subseteq inflight
            /\ abandoned' + Cardinality(inflight') <= abandoned + Cardinality(inflight)]_vars

C3_Witness ==
    /\ appState = "Loading"
    /\ Cardinality(inflight) = MaxImages
    /\ batches = 2

\* The image the i-th request of a batch returns, as the views show it.
ImageOfRequest(batch, i) == DataUrl("image/png", <<batch, i>>)

\* C4: appState becomes Result only from Loading, in the step in which the
\* last request of the batch resolves, every other one having resolved; the
\* same step sets resultImages to the images of that batch.  A step in which
\* a request rejects ends the batch without Result.
C4_ResultOnlyWhenAllResolved ==
    [][/\ (appState # "Result" /\ appState' = "Result") =>
             /\ appState = "Loading"
             /\ Cardinality(inflight) = 1
             /\ Resolved(join) = Len(join.results) - 1
             /\ \A r \in inflight : r.batch = join.batch /\ join.results[r.index] = NULL
             /\ resultImages' = [i \in 1..Len(join.results) |-> ImageOfRequest(join.batch, i)]
       /\ RequestRejects => (appState' # "Result" /\ join' = NoJoin /\ inflight' = {})]_vars

C4_Witness ==
    /\ appState = "Result"
    /\ Len(resultImages) = 3
    /\ resultImages[3] = ImageOfRequest(1, 3)

\* C5: when a request of the batch rejects, whatever the batch size and the
\* position of the request and however many others have resolved, the step
\* ends in Idle with a non-empty error, resultImages and history are what
\* they were, and resultImages holds no image of the batch.
C5_AnyRejectionFailsBatch ==
    [][RequestRejects =>
          /\ appState' = "Idle"
          /\ error' # NULL
          /\ error'.message # ""
          /\ resultImages' = resultImages
          /\ \A i \in 1..Len(resultImages') : resultImages'[i].base64[1] # join.batch
          /\ history' = history
          /\ now' = now]_vars

C5_Witness ==
    /\ appState = "Idle"
    /\ error = Err("Failed to generate image. Invalid response from model. No parts found.")
    /\ numberOfImages = MaxImages
    /\ abandoned = 3
    /\ batches = 1
    /\ history = <<>>

\* C6 as stated: appState leaves Loading only in the step in which the last
\* pending request of the batch settles.
C6_AsStated ==
    [][(appState = "Loading" /\ appState' # "Loading") => Cardinality(inflight) = 1]_vars

\* C6: appState leaves Loading for Result once every request of the batch has
\* resolved, and for Idle in the very step in which one request rejects, the
\* other requests of the batch still pending then being left to themselves.
C6_LoadingEndsAtFirstRejection ==
    [][/\ (appState = "Loading" /\ appState' # "Loading") =>
             \/ /\ appState' = "Result"
                /\ Cardinality(inflight) = 1
                /\ abandoned' = abandoned
             \/ /\ appState' = "Idle"
                /\ RequestRejects
                /\ abandoned' = abandoned + Cardinality(inflight) - 1
       /\ RequestRejects => appState' = "Idle"
       /\ (appState = "Loading" /\ appState' = "Loading" /\ inflight' # inflight) =>
             (Cardinality(inflight') = Cardinality(inflight) - 1 /\ inflight' # {})]_vars

C6_Witness ==
    /\ appState = "Idle"
    /\ error # NULL
    /\ numberOfImages = 2
    /\ abandoned = 1
    /\ inflight = {}

\* C7: in Result, resultImages holds exactly numberOfImages images, and the
\* i-th is the image the i-th request of the batch returned, in whatever
\* order the requests completed.
C7_ResultsInRequestOrder ==
    appState = "Result" =>
        /\ Len(resultImages) = numberOfImages
        /\ \A i \in 1..Len(resultImages) : resultImages[i] = ImageOfRequest(batches, i)

C7_Witness ==
    /\ appState = "Result"
    /\ Len(resultImages) = MaxImages
    /\ batches = 2

\* The smaller of two numbers.
Min(a, b) == IF a < b THEN a ELSE b

\* C8: the history holds the min(10, k) most recent of the k successful
\* generations, the most recent first.
C8_HistoryHoldsTenMostRecent ==
    /\ Len(history) = Min(now, HistoryCap)
    /\ \A k \in 1..Len(history) : history[k].id = now - k + 1
    /\ \A k \in 1..(Len(history) - 1) :
          history[k].images[1].base64[1] > history[k + 1].images[1].base64[1]

C8_Witness ==
    /\ now = HistoryCap + 1
    /\ Len(history) = HistoryCap
    /\ history[1].id = HistoryCap + 1
    /\ \A k \in 1..Len(history) : history[k].id # 1

\* C9: a step changes the history only when a batch succeeds, and then by
\* putting one new entry in front of the entries it held, which keep their
\* fields and their order, the last one going when there would be eleven.
C9_HistoryOnlyGrowsAtFront ==
    [][\/ history' = history
       \/ /\ appState = "Loading"
          /\ appState' = "Result"
          /\ Len(history') = Min(Len(history) + 1, HistoryCap)
          /\ \A k \in 2..Len(history') : history'[k] = history[k - 1]
          /\ \A k \in 1..Len(history) : history[k].id # history'[1].id
          /\ history'[1].images = resultImages']_vars

C9_Witness ==
    /\ now = HistoryCap + 1
    /\ appState = "Idle"
    /\ productImage = NULL
    /\ resultImages = <<>>
    /\ Len(history) = HistoryCap

\* C10: an error is shown only in Idle.
C10_ErrorOnlyInIdle ==
    error # NULL => appState = "Idle"

C10_Witness ==
    /\ error = Err("Please upload a product image.")
    /\ appState = "Idle"
    /\ batches = 1

\* The image part a request carries for a slot's data URL.
PayloadOf(image) == [inlineData |-> [data |-> image.base64, mimeType |-> image.mime]]

\* The image parts of a request, in order.
ImageParts(parts) == SelectSeq(parts, IsImagePart)

\* One image part if the optional slot is set, none otherwise.
OptionalPayload(image) == IF image # NULL THEN <<PayloadOf(image)>> ELSE <<>>

\* C11: mode is always character or product, and the requests of a batch
\* carry the images of the active mode's slots only: character, product and
\* (iff set) outfit in character mode, product and (iff set) background in
\* product mode, whatever the other slots hold.
C11_BatchUsesActiveModeSlots ==
    [][/\ mode' \in {"character", "product"}
       /\ Accepted =>
             \A r \in inflight' :
                 ImageParts(r.parts) =
                     IF mode = "character"
                     THEN <<PayloadOf(characterImage), PayloadOf(productImage)>>
                          \o OptionalPayload(outfitImage)
                     ELSE <<PayloadOf(productImage)>> \o OptionalPayload(backgroundImage)]_vars

C11_Witness ==
    /\ appState = "Loading"
    /\ mode = "product"
    /\ characterImage # NULL
    /\ outfitImage # NULL
    /\ backgroundImage = NULL
    /\ \A r \in inflight : Len(r.parts) = 2
    /\ inflight # {}

\* The positions of the text parts of a request.
TextPositions(parts) == {i \in 1..Len(parts) : IsTextPart(parts[i])}

\* C12: a character-mode request has three parts (character image, product
\* image, instruction text) when no outfit was supplied and four (character,
\* product, outfit, text) when one was; the one text part is last and the
\* parts before it are images.
C12_CharacterRequestShape ==
    \A r \in inflight :
        r.mode = "character" =>
            LET parts == r.parts
                n == Len(parts)
            IN  /\ n = (IF join.outfitImage # NULL THEN 4 ELSE 3)
                /\ parts[1] = PayloadOf(join.characterImage)
                /\ parts[2] = PayloadOf(join.productImage)
                /\ join.outfitImage # NULL => parts[3] = PayloadOf(join.outfitImage)
                /\ TextPositions(parts) = {n}
                /\ \A i \in 1..(n - 1) : IsImagePart(parts[i])

C12_Witness ==
    /\ appState = "Loading"
    /\ mode = "character"
    /\ outfitImage # NULL
    /\ characterPrompt # <<>>
    /\ \E r \in inflight : Len(r.parts) = 4 /\ IsTextPart(r.parts[4])

\* The clauses of a request's instruction that are of the given kind.
ClausesOf(parts, kind) ==
    LET all == parts[Len(parts)].text.clauses
    IN  {all[i] : i \in {j \in 1..Len(all) : all[j].clause = kind}}

\* C13: the instruction of a product-mode request holds the user's text as
\* typed whenever there is any; with a background image it is the background
\* template, without a scene description clause, the text being an additional
\* request only if non-empty; without one it is the scene template, with the
\* scene description clause holding the text.
C13_ProductInstruction ==
    \A r \in inflight :
        r.mode = "product" =>
            LET text == r.parts[Len(r.parts)].text
                scene == ClausesOf(r.parts, "USER SCENE DESCRIPTION")
                extra == ClausesOf(r.parts, "ADDITIONAL USER REQUEST")
            IN  /\ join.prompt # <<>> => \E c \in scene \cup extra : c.text = join.prompt
                /\ join.backgroundImage # NULL =>
                      /\ text.template = "product in background"
                      /\ scene = {}
                      /\ extra # {} <=> join.prompt # <<>>
                /\ join.backgroundImage = NULL =>
                      /\ text.template = "product in scene"
                      /\ Cardinality(scene) = 1
                      /\ extra = {}
                      /\ \A c \in scene : c.text = join.prompt

C13_Witness ==
    /\ appState = "Loading"
    /\ mode = "product"
    /\ backgroundImage # NULL
    /\ productPrompt = <<" ", "a", " ">>
    /\ \E r \in inflight :
          ClausesOf(r.parts, "ADDITIONAL USER REQUEST")
              = {[clause |-> "ADDITIONAL USER REQUEST", text |-> <<" ", "a", " ">>]}

\* C14: when a request completes whose batch has already failed, appState,
\* resultImages, error and history stay as they are, and so does a newer
\* batch that is awaited; the requests a failing batch leaves pending all
\* stay out (none is cancelled) and end one by one.
C14_LateCompletionsIgnored ==
    [][/\ abandoned' < abandoned =>
             /\ abandoned' = abandoned - 1
             /\ UNCHANGED <<appState, resultImages, error, history, inflight, join>>
       /\ RequestRejects => abandoned' = abandoned + Cardinality(inflight) - 1]_vars

C14_Witness ==
    /\ appState = "Loading"
    /\ batches = 2
    /\ abandoned > 0
    /\ error = NULL
    /\ Cardinality(inflight) = 2

\* The MIME types a request may carry.
ClaimMimes == {"image/jpeg", "image/png", "image/webp"}

\* C15: every image part of a dispatched request has MIME type image/jpeg,
\* image/png or image/webp; a generate action that passes validation while a
\* slot the mode uses (optional ones included) holds another type sends no
\* request and ends in Idle with "Invalid image data URL." and the history
\* as it was.
C15_OnlyParsableImagesDispatched ==
    [][/\ \A r \in inflight' :
             \A i \in 1..Len(r.parts) :
                 IsImagePart(r.parts[i]) => r.parts[i].inlineData.mimeType \in ClaimMimes
       /\ (appState \in {"Idle", "Result"} /\ ~ClaimInvalid /\ ~ClaimParsable
              /\ HandleGenerate) =>
             /\ inflight' = inflight
             /\ abandoned' = abandoned
             /\ appState' = "Idle"
             /\ error' = Err("Invalid image data URL.")
             /\ history' = history]_vars

C15_Witness ==
    /\ appState = "Idle"
    /\ error = Err("Invalid image data URL.")
    /\ mode = "character"
    /\ characterImage # NULL /\ characterImage.mime = "image/jpeg"
    /\ productImage # NULL /\ productImage.mime = "image/png"
    /\ outfitImage # NULL /\ outfitImage.mime = "image/gif"
    /\ inflight = {}
    /\ abandoned = 0

\* C16 as stated: a read that ends and fills a slot leaves in it a data URL
\* of type image/jpeg, image/png or image/webp.
C16_AsStated ==
    [][\A type \in SlotTypes :
          (Cardinality(reads') < Cardinality(reads) /\ Slot(type)' # Slot(type)) =>
              Slot(type)'.mime \in ClaimMimes]_vars

\* The response holds a part that carries image data.
ClaimHasImage(outcome) ==
    /\ outcome.kind = "parts"
    /\ \E i \in 1..Len(outcome.parts) :
          /\ "inlineData" \in DOMAIN outcome.parts[i]
          /\ outcome.parts[i].inlineData.data # <<>>

\* The text of the response, or "<no text>".
ClaimText(outcome) ==
    LET texts == {i \in 1..Len(outcome.parts) : "text" \in DOMAIN outcome.parts[i]}
    IN  IF texts = {} THEN "<no text>"
        ELSE outcome.parts[CHOOSE i \in texts : \A j \in texts : i <= j].text

\* C17 as stated: whatever response a pending request gets, the request
\* resolves with the image data and MIME type if the response holds an image
\* part, and otherwise rejects with a non-empty message that begins with the
\* mode's failure prefix and, for a response with parts, ends with the
\* response's text or "<no text>".
C17_AsStated ==
    \A r \in inflight : \A outcome \in Outcomes(r) :
        LET result == TaskResult(r, outcome)
            prefix == IF r.mode = "character" THEN "Failed to generate image. "
                      ELSE "Failed to generate product concept. "
        IN  IF ClaimHasImage(outcome)
            THEN /\ result.ok
                 /\ result.value.imageData = [data |-> <<r.batch, r.index>>,
                                              mimeType |-> "image/png"]
            ELSE /\ ~result.ok
                 /\ result.message # ""
                 /\ outcome.kind = "parts" =>
                       result.message = prefix \o "Model did not return an image. Response: "
                                               \o ClaimText(outcome)
                 /\ outcome.kind = "no parts" =>
                       result.message = prefix \o "Invalid response from model. No parts found."
                 /\ outcome.kind = "error" => result.message = prefix \o outcome.message

\* The aspect clause of a request's instruction.
AspectOf(r) == r.parts[Len(r.parts)].text.aspect

\* The clause of the three fixed ratios.
ClaimFixedAspect ==
    CASE aspectRatio = "1:1" -> "a square (1:1)"
      [] aspectRatio = "3:4" -> "a portrait (3:4)"
      [] aspectRatio = "4:3" -> "a landscape (4:3)"

\* C18 as stated: the aspect clause of every request is that of the fixed
\* ratio selected, and "a (W:H)" for the custom selection, whatever width W
\* and height H (0 or more) the size inputs hold.
C18_AsStated ==
    \A r \in inflight :
        AspectOf(r) = IF aspectRatio = "custom"
                      THEN "a (" \o ToString(customWidth) \o ":"
                                 \o ToString(customHeight) \o ")"
                      ELSE ClaimFixedAspect

\* C18: the aspect clause of every request is that of the fixed ratio
\* selected; for the custom selection it is "a (W:H)" when the width W and
\* the height H are both above 0, and "a (custom)" when either is 0.
C18_AspectClause ==
    \A r \in inflight :
        AspectOf(r) = IF aspectRatio # "custom" THEN ClaimFixedAspect
                      ELSE IF customWidth > 0 /\ customHeight > 0
                      THEN "a (" \o ToString(customWidth) \o ":"
                                 \o ToString(customHeight) \o ")"
                      ELSE "a (custom)"

C18_Witness ==
    /\ appState = "Loading"
    /\ aspectRatio = "custom"
    /\ customWidth = 3
    /\ customHeight = 0
    /\ \E r \in inflight : AspectOf(r) = "a (custom)"

\* A generate action that starts a batch built from the inputs as they are.
ClaimNewBatch ==
    /\ HandleGenerate
    /\ inflight' # {}
    /\ \A r \in inflight' :
          /\ r.batch = batches + 1
          /\ r.mode = mode
          /\ ImageParts(r.parts) =
                IF mode = "character"
                THEN <<PayloadOf(characterImage), PayloadOf(productImage)>>
                     \o OptionalPayload(outfitImage)
                ELSE <<PayloadOf(productImage)>> \o OptionalPayload(backgroundImage)
    /\ join'.prompt = (IF mode = "character" THEN characterPrompt ELSE productPrompt)

\* A step of the zoom modal.
ZoomStep == zoomedImageState' # zoomedImageState \/ currentIndex' # currentIndex

PromptOf(r) ==
    LET clauses == r.parts[Len(r.parts)].text.clauses
    IN  IF clauses = <<>> THEN <<>> ELSE clauses[1].text

\* C20: the history changes only in the step in which a batch succeeds, by
\* one entry put in front: its images are the batch's result images in
\* request order, its mode and prompt those of the batch's requests, its
\* four image fields the slots as the generate action found them.
C20_OneEntryPerSuccess ==
    [][history' # history =>
          /\ appState = "Loading"
          /\ appState' = "Result"
          /\ Len(history') = Min(Len(history) + 1, HistoryCap)
          /\ SubSeq(history', 2, Len(history')) = SubSeq(history, 1, Len(history') - 1)
          /\ LET entry == history'[1]
             IN  /\ entry.images = resultImages'
                 /\ Len(entry.images) = Len(join.results)
                 /\ \A i \in 1..Len(entry.images) :
                        entry.images[i] = ImageOfRequest(join.batch, i)
                 /\ \A r \in inflight :
                        /\ entry.mode = r.mode
                        /\ entry.prompt = PromptOf(r)
                        /\ ImageParts(r.parts) =
                              IF entry.mode = "character"
                              THEN <<PayloadOf(entry.characterImage),
                                     PayloadOf(entry.productImage)>>
                                   \o OptionalPayload(entry.outfitImage)
                              ELSE <<PayloadOf(entry.productImage)>>
                                   \o OptionalPayload(entry.backgroundImage)
                 /\ entry.characterImage = join.characterImage
                 /\ entry.productImage = join.productImage
                 /\ entry.outfitImage = join.outfitImage
                 /\ entry.backgroundImage = join.backgroundImage]_vars

C20_Witness ==
    /\ appState = "Result"
    /\ Len(history) = 1
    /\ history[1].images = resultImages
    /\ Len(resultImages) = 1
    /\ history[1].outfitImage = NULL
    /\ outfitImage # NULL

\* C21: if every request of an awaited batch ends, Loading is always
\* followed by Result or Idle; and appState is Loading exactly while the
\* batch has requests pending and none has rejected: no step other than the
\* end of a request leaves Loading.
C21_LoadingEnds ==
    /\ (appState = "Loading") ~> (appState \in {"Result", "Idle"})
    /\ [](appState = "Loading" <=> inflight # {})
    /\ [][(appState = "Loading" /\ inflight' = inflight) => appState' = "Loading"]_vars

C21_Witness ==
    /\ appState = "Loading"
    /\ Len(join.results) = 3
    /\ Cardinality(inflight) = 1
    /\ Resolved(join) = 2
    /\ batches = 1

\* C22: a step from Result to Idle that is neither Continue nor a generate
\* action is Start Over: it empties the four image slots and both prompts,
\* sets the image count to 1, the aspect ratio to 1:1, resultImages to empty
\* and error to null, and leaves history, mode and the custom width and
\* height as they are.
C22_StartOverResets ==
    [][(appState = "Result" /\ appState' = "Idle" /\ ~handleContinue /\ ~HandleGenerate) =>
          /\ characterImage' = NULL
          /\ productImage' = NULL
          /\ outfitImage' = NULL
          /\ backgroundImage' = NULL
          /\ characterPrompt' = <<>>
          /\ productPrompt' = <<>>
          /\ numberOfImages' = 1
          /\ aspectRatio' = "1:1"
          /\ resultImages' = <<>>
          /\ error' = NULL
          /\ history' = history
          /\ mode' = mode
          /\ customWidth' = customWidth
          /\ customHeight' = customHeight]_vars

C22_Witness ==
    /\ appState = "Idle"
    /\ inputs = ModeInputs
    /\ mode = "product"
    /\ productImage = NULL
    /\ productPrompt = <<>>
    /\ aspectRatio = "1:1"
    /\ customWidth = 3
    /\ Len(history) = 1
    /\ history[1].mode = "product"
    /\ history[1].prompt # <<>>

\* C23: a step from Result to Idle that is neither Start Over nor a generate
\* action is Continue: it sets the image count to 1, resultImages to empty
\* and error to null, leaves the image slots, the prompts, mode, aspect
\* ratio, custom sizes and history as they are, and its inputs pass the
\* validation of a generate action.
C23_ContinueKeepsInputs ==
    [][(appState = "Result" /\ appState' = "Idle" /\ ~handleStartOver /\ ~HandleGenerate) =>
          /\ numberOfImages' = 1
          /\ resultImages' = <<>>
          /\ error' = NULL
          /\ UNCHANGED <<characterImage, productImage, outfitImage, backgroundImage,
                         characterPrompt, productPrompt, mode, aspectRatio,
                         customWidth, customHeight, history>>
          /\ ~ClaimInvalid'
          /\ ValidationError' = NULL]_vars

C23_Witness ==
    /\ appState = "Idle"
    /\ inputs = 4
    /\ numberOfImages = 1
    /\ resultImages = <<>>
    /\ aspectRatio = "custom"
    /\ characterImage # NULL
    /\ productImage # NULL
    /\ Len(history) = 1
    /\ Len(history[1].images) = 2

\* C24: reusing a history entry sets mode and the four image slots to the
\* entry's values, the prompt of the entry's mode to the entry's prompt and
\* the other mode's prompt to empty; it leaves appState, the image count, the
\* aspect ratio, error and history as they are, and the inputs it yields pass
\* the validation of a generate action.
C24_ReuseRestoresEntry ==
    [][handleReuseHistoryItem(ModeInputs) =>
          /\ \E k \in 1..Len(history) :
                /\ mode' = history[k].mode
                /\ characterImage' = history[k].characterImage
                /\ productImage' = history[k].productImage
                /\ outfitImage' = history[k].outfitImage
                /\ backgroundImage' = history[k].backgroundImage
                /\ history[k].mode = "character" =>
                       characterPrompt' = history[k].prompt /\ productPrompt' = <<>>
                /\ history[k].mode = "product" =>
                       productPrompt' = history[k].prompt /\ characterPrompt' = <<>>
          /\ UNCHANGED <<appState, numberOfImages, aspectRatio, error, history>>
          /\ ~ClaimInvalid'
          /\ ValidationError' = NULL]_vars

C24_Witness ==
    /\ appState = "Idle"
    /\ inputs = ModeInputs
    /\ Len(history) = 2
    /\ history[1].characterImage # history[2].characterImage
    /\ history[1].productImage # history[2].productImage
    /\ characterImage = history[2].characterImage
    /\ productImage = history[2].productImage
    /\ mode = "character"

\* C25: whenever appState is Result, resultImages holds between one and six
\* images, history is not empty, and resultImages is the images of the entry
\* at the front of history.
C25_ResultShowsFrontEntry ==
    appState = "Result" =>
        /\ Len(resultImages) \in 1..MaxImages
        /\ history # <<>>
        /\ resultImages = history[1].images

C25_Witness ==
    /\ appState = "Result"
    /\ Len(resultImages) = MaxImages
    /\ Len(history) = 2
    /\ history[2].images # resultImages
    /\ Len(history[2].images) = 1

\* The three messages of the validation.
ClaimValidationMessages ==
    {Err("Please upload both a character and a product image."),
     Err("Please upload a product image."),
     Err("Please describe the scene or provide a background image for the product concept.")}

\* C26: the Generate button is disabled exactly when the validation of
\* handleGenerate would reject the mode, slots and prompt there are, and no
\* click on a button ever leaves one of the three validation messages in
\* error.
C26_DisabledIffInvalid ==
    /\ isGenerateDisabled <=> ValidationError # NULL
    /\ isGenerateDisabled <=> ClaimInvalid
    /\ error \notin ClaimValidationMessages

C26_Witness ==
    /\ appState = "Loading"
    /\ batches = 1
    /\ join.mode = "product"
    /\ join.prompt = <<" ">>
    /\ join.backgroundImage # NULL
    /\ characterImage = NULL

\* The images are those of one batch, in request order.
ClaimOneBatch(images) ==
    \A i \in 1..Len(images) : images[i] = ImageOfRequest(images[1].base64[1], i)

\* C27: while appState is Loading no step starts a generation, edits the
\* mode, a prompt, the count, the ratio or a custom size, or empties a slot (a
\* slot changes only by a file read ending),
\* and appState changes only when the awaited batch ends; a batch is only
\* dispatched when none is awaited, so one batch at most is awaited, its
\* pending requests are its own, and resultImages and every history entry
\* hold the images of one batch.
C27_OneBatchAtATime ==
    /\ [](/\ join # NoJoin <=> appState = "Loading"
          /\ \A r \in inflight : r.batch = join.batch /\ join.results[r.index] = NULL
          /\ ClaimOneBatch(resultImages)
          /\ \A k \in 1..Len(history) : ClaimOneBatch(history[k].images))
    /\ [][appState = "Loading" =>
             /\ UNCHANGED <<mode, characterPrompt, productPrompt, numberOfImages,
                            aspectRatio, customWidth, customHeight, batches, inputs>>
             /\ \A type \in SlotTypes :
                    Slot(type)' # Slot(type) => (Slot(type)' # NULL /\ reads' # reads)
             /\ appState' # appState => (inflight # {} /\ inflight' = {} /\ join' = NoJoin)]_vars
    /\ [][batches' # batches => (join = NoJoin /\ inflight = {} /\ appState # "Loading")]_vars

C27_Witness ==
    /\ appState = "Loading"
    /\ join.batch = 2
    /\ abandoned > 0
    /\ Resolved(join) = 1
    /\ Cardinality(inflight) = 1
    /\ history = <<>>

\* The image payloads a request carries for the slots a generate action found.
ClaimCapturedParts(j) ==
    IF j.mode = "character"
    THEN <<PayloadOf(j.characterImage), PayloadOf(j.productImage)>>
         \o OptionalPayload(j.outfitImage)
    ELSE <<PayloadOf(j.productImage)>> \o OptionalPayload(j.backgroundImage)

\* C28: a file read that ends while appState is Loading or Result puts its
\* result in its slot and leaves appState, the pending requests, the awaited
\* batch, resultImages and history as they are; the requests of a batch and
\* the history entry it makes carry the slot values the generate action
\* found, and a Regenerate builds its requests from the slots as they are
\* when it is clicked.
C28_ReadDuringBatch ==
    /\ [](\A r \in inflight : ImageParts(r.parts) = ClaimCapturedParts(join))
    /\ [][(appState \in {"Loading", "Result"} /\ FinishRead) =>
             /\ \E r \in reads \ reads' : Slot(r.type)' = r.result
             /\ UNCHANGED <<appState, inflight, join, batches, resultImages, history>>]_vars
    /\ [][(appState = "Loading" /\ appState' = "Result") =>
             /\ history'[1].characterImage = join.characterImage
             /\ history'[1].productImage = join.productImage
             /\ history'[1].outfitImage = join.outfitImage
             /\ history'[1].backgroundImage = join.backgroundImage]_vars
    /\ [][(appState = "Result" /\ appState' = "Loading") => ClaimNewBatch]_vars

C28_Witness ==
    /\ appState = "Loading"
    /\ resultImages # <<>>
    /\ Len(history) = 1
    /\ history[1].outfitImage = NULL
    /\ join.outfitImage # NULL
    /\ \A r \in inflight : Len(ImageParts(r.parts)) = 3

\* The prefix the claim gives for a mode.
ClaimPrefix(m) ==
    IF m = "character" THEN "Failed to generate image. "
    ELSE "Failed to generate product concept. "

\* What a request can reject with.
ClaimRejections ==
    {"Network error",
     "Invalid response from model. No parts found.",
     "Model did not return an image. Response: <no text>",
     "Model did not return an image. Response: I cannot do that."}

\* C29: the step in which a request of the awaited batch rejects, whatever
\* its index and whatever is still pending, ends the batch in Idle with the
\* error set to that request's message behind "Failed to generate image. "
\* in character mode and "Failed to generate product concept. " in product
\* mode; a request of that batch ending later leaves error as it is.
C29_FirstRejectionShown ==
    /\ [][RequestRejects =>
             /\ appState' = "Idle"
             /\ \E text \in ClaimRejections :
                    error' = Err(ClaimPrefix(join.mode) \o text)
             /\ \E request \in inflight : \E outcome \in Outcomes(request) :
                    /\ ~executeImageGeneration(outcome).ok
                    /\ error'.message = ClaimPrefix(request.mode)
                                            \o executeImageGeneration(outcome).message
             /\ abandoned' = abandoned + Cardinality(inflight) - 1]_vars
    /\ [][abandoned' < abandoned => UNCHANGED <<error, appState, resultImages, history>>]_vars

C29_Witness ==
    /\ appState = "Idle"
    /\ error = Err("Failed to generate product concept. Model did not return an image. Response: I cannot do that.")
    /\ abandoned = 1
    /\ batches = 1
    /\ numberOfImages = 2

\* The number of images the zoom modal is open on.
ClaimZoomCount == Len(zoomedImageState.images)

\* C30 as stated: while the zoom modal is open, on a list of n >= 1 images,
\* with a start index in 0..n-1, the current index is in 0..n-1; Next from
\* n-1 gives 0 and otherwise one more, Previous from 0
\* gives n-1 and otherwise one less, so Next followed by Previous gives the
\* same index; closing leaves the state closed with no images and appState,
\* resultImages and history as they were.
C30_AsStated ==
    /\ [](zoomedImageState.isOpen =>
             /\ ClaimZoomCount >= 1
             /\ zoomedImageState.startIndex \in 0..(ClaimZoomCount - 1)
             /\ currentIndex \in 0..(ClaimZoomCount - 1))
    /\ [][handleNext =>
             /\ currentIndex' = (IF currentIndex = ClaimZoomCount - 1 THEN 0
                                 ELSE currentIndex + 1)
             /\ (currentIndex' - 1 + ClaimZoomCount) % ClaimZoomCount = currentIndex]_vars
    /\ [][handlePrev =>
             /\ currentIndex' = (IF currentIndex = 0 THEN ClaimZoomCount - 1
                                 ELSE currentIndex - 1)
             /\ (currentIndex' + 1) % ClaimZoomCount = currentIndex]_vars
    /\ [][handleCloseZoomModal =>
             /\ zoomedImageState' = [isOpen |-> FALSE, images |-> <<>>, startIndex |-> 0]
             /\ UNCHANGED <<appState, resultImages, history>>]_vars

====
